---- MODULE Spec2Model ----
(***************************************************************************)
(* FileRAG: the document registry (DocumentManager), the Gemini adapter    *)
(* (GeminiClient), the query pipeline and the query log (ChatHandler).     *)
(* Text is modelled by TLA+ strings, so substring search, counting,        *)
(* lower-casing and lengths are computed on the characters themselves.     *)
(* A Python call is modelled by the record it returns or the exception it  *)
(* raises: [raised |-> TRUE, msg |-> str(e)] or [raised |-> FALSE, ...].   *)
(***************************************************************************)
EXTENDS Integers, Sequences, FiniteSets, TLC

VARIABLES
    remote,     \* the files the remote service holds, in the order it lists them
    log,        \* the content of the query log file
    logExists,  \* whether the log file exists
    logged,     \* query records and rating blocks written since the header
    pc,         \* "idle", "batch" (between two items) or "polling" (in upload_file)
    up,         \* the upload_document call in progress
    batch,      \* the batch_upload_documents call in progress
    last,       \* what the last finished call returned and did
    config,     \* StoreManager.config, the store configuration in memory
    configFile, \* the content of the configuration file
    writers,    \* the log writes in progress in concurrent sessions
    calls       \* the upload_document calls in progress in concurrent sessions

vars == <<remote, log, logExists, logged, pc, up, batch, last, config, configFile, writers,
          calls>>

(***************************************************************************)
(* Bounds of the model.                                                    *)
(***************************************************************************)
\* files the remote service holds at most
MaxFiles == 2
\* blocks (query records and ratings) in the log at most
MaxLogBlocks == 1
\* items of one batch upload at most
MaxBatch == 2
\* the blocks written to the log in a run that follows the log's growth
MaxAppends == 2

(***************************************************************************)
(* Inputs.                                                                 *)
(***************************************************************************)
DisplayNames == {"a.txt", "A.txt"}
Questions == {"What is X?", "Query: what?"}
Notes == {"", "Query: good"}
Ratings == {5}
\* str(e) of an error of the remote service or of the file system
RemoteError == "503 unavailable"
IOErrorText == "permission denied"
\* datetime.now().isoformat()
Timestamps == {"2025-01-01T00:00:00"}

RefusalSentence == "I don't have this information in the provided documents."
Answer80 == "X is described in a.txt as the main topic of the notes, with details in part two"
Answer30 == "It is not found in the file A."
Answer50 == "This exact detail is not available in the notes..."
Answer51 == "This exact detail is not available in the notes...."
AnswerUpper == "That is NOT FOUND IN THE notes."
AnswerShort == "X is Y."
AnswerQuoting == "Query: see a.txt"
\* response.text of generate_content
GenTexts == {RefusalSentence, Answer30, ""}

States == {"PROCESSING", "ACTIVE", "FAILED"}

(***************************************************************************)
(* Python's str operations.                                                *)
(***************************************************************************)
\* s * n (by halving: the evaluation stays shallow)
RECURSIVE Repeat(_, _)
Repeat(s, n) ==
    IF n <= 0 THEN ""
    ELSE LET half == Repeat(s, n \div 2)
         IN  half \o half \o (IF n % 2 = 1 THEN s ELSE "")

RECURSIVE JoinFrom(_, _, _)
JoinFrom(sep, seq, i) ==
    IF i > Len(seq) THEN ""
    ELSE IF i = Len(seq) THEN seq[i]
    ELSE seq[i] \o sep \o JoinFrom(sep, seq, i + 1)

Join(sep, seq) == JoinFrom(sep, seq, 1)

UpperLetters == "ABCDEFGHIJKLMNOPQRSTUVWXYZ"
LowerLetters == "abcdefghijklmnopqrstuvwxyz"

\* the lower-case letter of each upper-case letter
LowerOf ==
    [c \in {SubSeq(UpperLetters, i, i) : i \in 1..26} |->
        LET i == CHOOSE k \in 1..26 : SubSeq(UpperLetters, k, k) = c
        IN  SubSeq(LowerLetters, i, i)]

LowerChar(c) == IF c \in DOMAIN LowerOf THEN LowerOf[c] ELSE c

RECURSIVE LowerRange(_, _, _)
LowerRange(s, a, b) ==
    IF a > b THEN ""
    ELSE IF a = b THEN LowerChar(SubSeq(s, a, a))
    ELSE LET m == (a + b) \div 2
         IN  LowerRange(s, a, m) \o LowerRange(s, m + 1, b)

\* str.lower(): every character lower-cased
Lower(s) == LowerRange(s, 1, Len(s))

\* sub in s
Contains(s, sub) ==
    \E i \in 1..(Len(s) - Len(sub) + 1) : SubSeq(s, i, i + Len(sub) - 1) = sub

\* the positions at which sub occurs in s
Occurrences(s, sub) ==
    {i \in 1..(Len(s) - Len(sub) + 1) : SubSeq(s, i, i + Len(sub) - 1) = sub}

\* str.count(sub): the non-overlapping occurrences, scanning from the left:
\* the leftmost occurrence at or after position i, then on behind it
RECURSIVE CountFrom(_, _, _)
CountFrom(s, sub, i) ==
    LET Behind(first) == 1 + CountFrom(s, sub, first + Len(sub))
        Leftmost(ahead) ==
            IF ahead = {} THEN 0
            ELSE Behind(CHOOSE j \in ahead : \A k \in ahead : j <= k)
    IN  Leftmost({j \in Occurrences(s, sub) : j >= i})

Count(s, sub) == CountFrom(s, sub, 1)

IntStr(n) ==
    CASE n = 0 -> "0" [] n = 1 -> "1" [] n = 2 -> "2" [] n = 3 -> "3"
      [] n = 4 -> "4" [] n = 5 -> "5" [] n = 6 -> "6" [] n = 7 -> "7"
      [] n = 8 -> "8" [] OTHER -> "9"

Raise(m) == [raised |-> TRUE, msg |-> m]
Return(v) == [raised |-> FALSE, val |-> v]

(***************************************************************************)
(* The remote service.                                                     *)
(***************************************************************************)
FileName(k) == "files/" \o IntStr(k)

\* the name the service gives a new file: one no listed file has
NewName == FileName(CHOOSE k \in 1..(Len(remote) + 1) :
                        \A i \in 1..Len(remote) : remote[i].name # FileName(k))

RemoteNames == {remote[i].name : i \in 1..Len(remote)}

RemoteFile(name) == remote[CHOOSE i \in 1..Len(remote) : remote[i].name = name]

Without(seq, name) ==
    LET keep == {i \in 1..Len(seq) : seq[i].name # name}
        RECURSIVE Pick(_)
        Pick(i) == IF i > Len(seq) THEN <<>>
                   ELSE IF i \in keep THEN <<seq[i]>> \o Pick(i + 1)
                   ELSE Pick(i + 1)
    IN  Pick(1)

\* the number in a file name
IdOf(name) == CHOOSE k \in 0..(MaxFiles + 1) : FileName(k) = name

\* the service takes a new file in; it lists its files in the order of their
\* names
WithFile(seq, file) ==
    LET before == {i \in 1..Len(seq) : IdOf(seq[i].name) < IdOf(file.name)}
        n == Cardinality(before)
    IN  SubSeq(seq, 1, n) \o <<file>> \o SubSeq(seq, n + 1, Len(seq))

(***************************************************************************)
(* GeminiClient                                                            *)
(***************************************************************************)
\* GeminiClient.list_files
list_files(fails) ==
    IF fails THEN Raise("Failed to list files: " \o RemoteError)
    ELSE Return(remote)

\* GeminiClient.delete_file
delete_file(fails) ==
    IF fails THEN Raise("Failed to delete file: " \o RemoteError)
    ELSE Return(TRUE)

\* genai.get_file as query_with_files sees it: an error, or a file object
\* (the service's file objects always carry a state, so the branch of the
\* readiness filter for an object without one is never taken)
Lookups == {"ok", "error"}

get_file(name, outcome) ==
    IF outcome = "error" THEN Raise(RemoteError)
    ELSE Return([name |-> name,
                 display_name |-> RemoteFile(name).display_name,
                 state |-> RemoteFile(name).state,
                 hasState |-> outcome = "ok"])

\* a faulty readiness test: every file that has not failed counts as ready
IsActive_NotFailed(file) == file.state # "FAILED"

\* the readiness test of query_with_files: file.state.name == 'ACTIVE'
IsActive(file) == file.state = "ACTIVE"

\* the loop over file_names of query_with_files
RECURSIVE ReadyFilter(_, _, _, _, _)
ReadyFilter(file_names, look, i, files, failed_files) ==
    IF i > Len(file_names) THEN [files |-> files, failed_files |-> failed_files]
    ELSE LET file_name == file_names[i]
             Step(got) ==
                 IF got.raised
                 THEN [files |-> files,
                       failed_files |-> Append(failed_files,
                           file_name \o " (error: " \o got.msg \o ")")]
                 ELSE IF got.val.hasState /\ IsActive(got.val)
                 THEN [files |-> Append(files, got.val), failed_files |-> failed_files]
                 ELSE IF got.val.hasState
                 THEN [files |-> files,
                       failed_files |-> Append(failed_files,
                           file_name \o " (state: " \o got.val.state \o ")")]
                 ELSE [files |-> Append(files, got.val), failed_files |-> failed_files]
             Rest(lists) ==
                 ReadyFilter(file_names, look, i + 1, lists.files, lists.failed_files)
         IN  Rest(Step(get_file(file_name, look[i])))

not_found_phrases ==
    << "i don't have this information",
       "i don't have",
       "not found in the",
       "not available in the",
       "cannot find this",
       "no information about",
       "don't see any information" >>

AnswerThreshold == 50

\* the loop over not_found_phrases, with its break
RECURSIVE ScanPhrases(_, _)
ScanPhrases(answer_lower, i) ==
    IF i > Len(not_found_phrases) THEN TRUE
    ELSE IF Contains(answer_lower, not_found_phrases[i]) THEN FALSE
    ELSE ScanPhrases(answer_lower, i + 1)

\* a faulty classification: the phrase scan alone, without the override
Classify_NoOverride(answer, sources) == ScanPhrases(Lower(answer), 1)

\* the found flag of query_with_files
Classify(answer, sources) ==
    LET found == ScanPhrases(Lower(answer), 1)
    IN  IF sources # <<>> /\ Len(answer) > AnswerThreshold THEN TRUE ELSE found

\* a faulty assembly of the sources: last file first
Sources_Reversed(files) ==
    [i \in 1..Len(files) |->
        [document |-> files[Len(files) + 1 - i].display_name,
         file_name |-> files[Len(files) + 1 - i].name]]

\* the sources of query_with_files: one entry for each file sent
Sources(files) ==
    [i \in 1..Len(files) |->
        [document |-> files[i].display_name, file_name |-> files[i].name]]

\* the try block of query_with_files; gen is what model.generate_content
\* does: Raise(..) or Return(response.text).  genCalls and sent record the
\* call of generate_content and the files passed to it.
query_with_files_try(file_names, look, gen) ==
    LET Body(files, failed_files) ==
            IF files = <<>>
            THEN Return([answer |-> "No active documents available to query."
                              \o (IF failed_files # <<>>
                                  THEN "\n\nFailed files: " \o Join(", ", failed_files)
                                  ELSE ""),
                  sources |-> <<>>, found |-> FALSE,
                  genCalls |-> 0, sent |-> <<>>, path |-> "noactive"])
            ELSE IF gen.raised
            THEN [raised |-> TRUE, msg |-> gen.msg, sent |-> files]
            ELSE LET answer == IF gen.val # "" THEN gen.val ELSE "No answer generated"
                     sources == Sources(files)
                 IN  Return([answer |-> answer, sources |-> sources,
                      found |-> Classify(answer, sources),
                      genCalls |-> 1, sent |-> files, path |-> "generated"])
        Filtered(part) == Body(part.files, part.failed_files)
    IN  Filtered(ReadyFilter(file_names, look, 1, <<>>, <<>>))

\* a faulty query_with_files: without its except clause
query_with_files_NoExcept(file_names, look, gen) ==
    query_with_files_try(file_names, look, gen)

\* GeminiClient.query_with_files: the try block and its except clause
query_with_files(file_names, look, gen) ==
    LET Except(r) ==
            IF r.raised
            THEN Return([answer |-> "Error processing query: " \o r.msg
                              \o "\n\nPlease check the console for details.",
                  sources |-> <<>>, found |-> FALSE,
                  genCalls |-> 1, sent |-> r.sent, path |-> "generror"])
            ELSE r
    IN  Except(query_with_files_try(file_names, look, gen))

\* str(e) of the error by which the remote service rejects a request that
\* names a file it no longer holds, or holds in a state other than Active
NotUsableError == "400 file is not in an ACTIVE state"

\* model.generate_content over the files the readiness filter accepted, by
\* the time the request reaches the remote service, whose files are then
\* `store`: the service rejects the request if one of the files is gone or
\* no longer Active; otherwise it does what it would have done (gen)
generate_content(files, store, gen) ==
    IF \A i \in 1..Len(files) :
           \E j \in 1..Len(store) :
               store[j].name = files[i].name /\ store[j].state = "ACTIVE"
    THEN gen
    ELSE Raise(NotUsableError)

\* the exit of upload_file once the poll loop has ended with the file in `state`
upload_file_exit(name, state) ==
    IF state = "FAILED"
    THEN Raise("Failed to upload file: File processing failed: " \o name)
    ELSE Return([name |-> name, state |-> state])

\* a faulty loop condition: upload_file does not wait
StillProcessing_Never(state) == FALSE

\* a faulty loop condition: upload_file never stops waiting
StillProcessing_Always(state) == TRUE

\* the condition of the poll loop of upload_file
StillProcessing(state) == state = "PROCESSING"

(***************************************************************************)
(* DocumentManager                                                         *)
(***************************************************************************)
\* DocumentManager.list_documents
list_documents(fails) ==
    LET files == list_files(fails)
    IN  IF files.raised THEN Raise("Failed to list documents: " \o files.msg)
        ELSE Return([i \in 1..Len(files.val) |->
                        [name |-> files.val[i].name,
                         display_name |-> files.val[i].display_name]])

\* a faulty get_all_document_names: the failure of the listing is ignored
get_all_document_names_Ignoring(fails) ==
    [i \in 1..Len(remote) |-> remote[i].name]

\* DocumentManager.get_all_document_names
get_all_document_names(fails) ==
    LET documents == list_documents(fails)
    IN  IF documents.raised THEN <<>>
        ELSE [i \in 1..Len(documents.val) |-> documents.val[i].name]

\* a faulty duplicate check: compares the remote name, not the display name
IsDuplicate_ByName(existing_docs, file_display_name) ==
    /\ ~existing_docs.raised
    /\ \E i \in 1..Len(existing_docs.val) :
           existing_docs.val[i].name = file_display_name

\* the duplicate check of upload_document on what list_documents gave
IsDuplicate(existing_docs, file_display_name) ==
    /\ ~existing_docs.raised
    /\ \E i \in 1..Len(existing_docs.val) :
           existing_docs.val[i].display_name = file_display_name

\* the results upload_document returns; a missing 'duplicate' key reads FALSE
DuplicateResult(file_display_name) ==
    [success |-> FALSE,
     message |-> "Document \"" \o file_display_name
                 \o "\" already exists. Please delete it first or rename the file.",
     document_name |-> "", duplicate |-> TRUE]

UploadFailure(msg) ==
    [success |-> FALSE, message |-> "Failed to upload document: " \o msg,
     document_name |-> "", duplicate |-> FALSE]

UploadSuccess(file_display_name, name) ==
    [success |-> TRUE,
     message |-> "Document \"" \o file_display_name \o "\" uploaded successfully",
     document_name |-> name, duplicate |-> FALSE]

\* the finally clause of upload_document: os.unlink of the temporary file; an
\* error of it replaces what the try block returned or raised
AfterCleanup(result, unlinkFails) ==
    IF unlinkFails THEN Raise(IOErrorText) ELSE result

\* a faulty upload_document: no except clause
UploadExcept_Propagating(r) == r

\* the except clause of upload_document around what its body returned or
\* raised
UploadExcept(r) ==
    IF r.raised THEN Return(UploadFailure(r.msg)) ELSE r

\* DocumentManager.delete_document(document_name); fails: delete_file raises
delete_document(fails) ==
    LET Except(r) ==
            IF r.raised
            THEN Return([success |-> FALSE,
                         message |-> "Failed to delete document: " \o r.msg])
            ELSE Return([success |-> TRUE,
                         message |-> "Document deleted successfully"])
    IN  Except(delete_file(fails))

(***************************************************************************)
(* ChatHandler                                                             *)
(***************************************************************************)
Rule80 == 80

Header(word, ts) ==
    "# FileRAG Query History\n" \o "# " \o word \o ": " \o ts \o "\n"
    \o Repeat("=", Rule80) \o "\n\n"

RECURSIVE SourceLines(_, _)
SourceLines(sources, idx) ==
    IF idx > Len(sources) THEN ""
    ELSE "  " \o IntStr(idx) \o ". Document: " \o sources[idx].document \o "\n"
         \o SourceLines(sources, idx + 1)

\* what _log_query writes for a response
QueryBlock(response) ==
    "\n" \o Repeat("=", Rule80) \o "\n"
    \o "Timestamp: " \o response.timestamp \o "\n"
    \o "Query: " \o response.question \o "\n"
    \o "\nAnswer: " \o response.answer \o "\n"
    \o (IF response.sources # <<>>
        THEN "\nSources:\n" \o SourceLines(response.sources, 1)
        ELSE "\nSources: No sources found\n")
    \o "Status: " \o (IF response.found THEN "Found" ELSE "Not Found") \o "\n"
    \o Repeat("=", Rule80) \o "\n\n"

\* the strings _log_query passes to f.write, one after another
QueryWrites(response) ==
    << "\n" \o Repeat("=", Rule80) \o "\n",
       "Timestamp: " \o response.timestamp \o "\n",
       "Query: " \o response.question \o "\n",
       "\nAnswer: " \o response.answer \o "\n" >>
    \o (IF response.sources # <<>>
        THEN <<"\nSources:\n">>
             \o [idx \in 1..Len(response.sources) |->
                    "  " \o IntStr(idx) \o ". Document: "
                    \o response.sources[idx].document \o "\n"]
        ELSE <<"\nSources: No sources found\n">>)
    \o << "Status: " \o (IF response.found THEN "Found" ELSE "Not Found") \o "\n",
          Repeat("=", Rule80) \o "\n\n" >>

\* the star of a rating line (the code writes a star emoji)
Star == "*"

\* a faulty rating block: delimited like a query block
RatingBlock_Equals(question, rating, note, ts) ==
    "\n" \o Repeat("=", Rule80) \o "\n"
    \o "RATING SUBMITTED: " \o ts \o "\n"
    \o "Question: " \o question \o "\n"
    \o "Rating: " \o Repeat(Star, rating) \o " (" \o IntStr(rating) \o "/5)\n"
    \o (IF note # "" THEN "Note: " \o note \o "\n" ELSE "")
    \o Repeat("=", Rule80) \o "\n\n"

\* what save_rating writes
RatingBlock(question, rating, note, ts) ==
    "\n" \o Repeat("*", Rule80) \o "\n"
    \o "RATING SUBMITTED: " \o ts \o "\n"
    \o "Question: " \o question \o "\n"
    \o "Rating: " \o Repeat(Star, rating) \o " (" \o IntStr(rating) \o "/5)\n"
    \o (IF note # "" THEN "Note: " \o note \o "\n" ELSE "")
    \o Repeat("*", Rule80) \o "\n\n"

\* a faulty open: the file is opened for appending
OpenForWrite_Append(content) == content

\* open(log_path, 'w'): the content of the file once it is opened
OpenForWrite(content) == ""

\* the strings save_rating passes to f.write, one after another
RatingWrites(question, rating, note, ts) ==
    << "\n" \o Repeat("*", Rule80) \o "\n",
       "RATING SUBMITTED: " \o ts \o "\n",
       "Question: " \o question \o "\n",
       "Rating: " \o Repeat(Star, rating) \o " (" \o IntStr(rating) \o "/5)\n" >>
    \o (IF note # "" THEN <<"Note: " \o note \o "\n">> ELSE <<>>)
    \o << Repeat("*", Rule80) \o "\n\n" >>

\* the buffer of the file object that open(log_path, 'a') returns
\* (io.DEFAULT_BUFFER_SIZE)
BufferSize == 8192

\* the writes by which the buffered file object passes a block on to the
\* file: the strings written are gathered, handed on when they fill the
\* buffer, and the rest is handed on when the file is closed
RECURSIVE Chunks(_, _, _)
Chunks(writes, i, pending) ==
    IF i > Len(writes) THEN (IF pending = "" THEN <<>> ELSE <<pending>>)
    ELSE IF Len(pending) + Len(writes[i]) >= BufferSize
    THEN <<pending \o writes[i]>> \o Chunks(writes, i + 1, "")
    ELSE Chunks(writes, i + 1, pending \o writes[i])

\* ChatHandler.get_query_count; readFails: reading the file raises
get_query_count(readFails) ==
    IF ~logExists THEN 0
    ELSE IF readFails THEN 0
    ELSE Count(log, "Query:")

\* ChatHandler.get_query_history
get_query_history(readFails) ==
    IF readFails THEN "Error reading query history: " \o IOErrorText
    ELSE IF logExists THEN log
    ELSE "No query history available"

\* the try block of _log_query
WriteQueryBlock(response, writeFails) ==
    IF writeFails THEN Raise(IOErrorText) ELSE Return(QueryBlock(response))

\* a faulty _log_query: the write error is not caught
_log_query_Propagating(response, writeFails) ==
    WriteQueryBlock(response, writeFails)

\* ChatHandler._log_query: what it appends to the log ("" when the write
\* failed and the warning was printed)
_log_query(response, writeFails) ==
    LET Except(w) == IF w.raised THEN Return("") ELSE Return(w.val)
    IN  Except(WriteQueryBlock(response, writeFails))

\* what a call of query() hands back: the response, and what the call did
\* (the remote calls made, the outcome of each step, the text appended to
\* the log, whether _log_query was called)
Outcome(response, path, raised, listFailed, getCalls, genCalls, lookups, sent, logCalls, written) ==
    [question |-> response.question, answer |-> response.answer,
     sources |-> response.sources, found |-> response.found,
     timestamp |-> response.timestamp,
     raised |-> raised, path |-> path,
     listCalls |-> 1, getCalls |-> getCalls, genCalls |-> genCalls,
     listFailed |-> listFailed, lookups |-> lookups, sent |-> sent,
     logCalls |-> logCalls, written |-> written]

Response(question, answer, sources, found, ts) ==
    [question |-> question, answer |-> answer, sources |-> sources,
     found |-> found, timestamp |-> ts]

\* a faulty no-documents response: found is true
NoDocumentsResponse_Found(question, ts) ==
    Response(question,
        "No documents available to query. Please upload documents first.",
        <<>>, TRUE, ts)

\* the response of query() when the registry names no documents
NoDocumentsResponse(question, ts) ==
    Response(question,
        "No documents available to query. Please upload documents first.",
        <<>>, FALSE, ts)

\* the try block of ChatHandler.query
query_try(question, listFails, look, gen, writeFails, ts) ==
    LET Lookups_(file_names) ==
            [i \in 1..Len(file_names) |->
                IF look[i] = "ok" THEN RemoteFile(file_names[i]).state ELSE look[i]]
        Names(files) == [i \in 1..Len(files) |-> files[i].name]
        Logged(file_names, result, response, lg) ==
            IF lg.raised
            THEN [raised |-> TRUE, msg |-> lg.msg,
                  getCalls |-> Len(file_names), lookups |-> Lookups_(file_names),
                  sent |-> Names(result.val.sent), logCalls |-> 1]
            ELSE Return(Outcome(response, result.val.path, FALSE, listFails,
                     Len(file_names), result.val.genCalls, Lookups_(file_names),
                     Names(result.val.sent), 1, lg.val))
        Respond(file_names, result, response) ==
            Logged(file_names, result, response, _log_query(response, writeFails))
        Answered(file_names, result) ==
            IF result.raised
            THEN [raised |-> TRUE, msg |-> result.msg,
                  getCalls |-> Len(file_names), lookups |-> Lookups_(file_names),
                  sent |-> Names(result.sent), logCalls |-> 0]
            ELSE Respond(file_names, result,
                     Response(question, result.val.answer, result.val.sources,
                              result.val.found, ts))
        Listed(file_names) ==
            IF file_names = <<>>
            THEN Return(Outcome(NoDocumentsResponse(question, ts), "nodocs",
                                FALSE, listFails, 0, 0, <<>>, <<>>, 0, ""))
            ELSE Answered(file_names, query_with_files(file_names, look, gen))
    IN  Listed(get_all_document_names(listFails))

\* ChatHandler.query: the try block and its except clause
query(question, listFails, look, gen, writeFails, ts) ==
    LET Logged(body, error_response, lg) ==
            Outcome(error_response, "error", lg.raised, listFails, body.getCalls,
                    1, body.lookups, body.sent, body.logCalls + 1,
                    IF lg.raised THEN "" ELSE lg.val)
        Handle(body, error_response) ==
            Logged(body, error_response, _log_query(error_response, writeFails))
        Except(body) ==
            IF ~body.raised THEN body.val
            ELSE Handle(body, Response(question, "Error processing query: " \o body.msg,
                                       <<>>, FALSE, ts))
    IN  Except(query_try(question, listFails, look, gen, writeFails, ts))

(***************************************************************************)
(* StoreManager                                                            *)
(***************************************************************************)
\* the configuration of _load_config when there is no readable file, and
\* the one delete_store resets to; an Optional[str] is a sequence of no or
\* one string, None being <<>>
DefaultConfig ==
    [store_initialized |-> FALSE, store_name |-> <<>>, created_at |-> <<>>]

\* the configuration file: <<>> when it does not exist, else <<c>> where c
\* is the configuration json.load reads from it
NoFile == <<>>

\* StoreManager._load_config
_load_config(file, readFails) ==
    IF file # NoFile /\ ~readFails THEN file[1] ELSE DefaultConfig

\* StoreManager._save_config: the file it leaves, or the exception
_save_config(cfg, saveFails) ==
    IF saveFails THEN Raise("Failed to save config: " \o IOErrorText)
    ELSE Return(<<cfg>>)

\* StoreManager.store_exists
store_exists == config.store_initialized

\* StoreManager.get_store_name
get_store_name == config.store_name

\* a faulty create_store: an existing store is overwritten
create_store_Overwriting(store_name, saveFails, ts) ==
    [result |-> [success |-> TRUE, message |-> "Store initialized successfully",
                 store_name |-> <<store_name>>],
     config |-> [store_initialized |-> TRUE, store_name |-> <<store_name>>,
                 created_at |-> <<ts>>],
     file |-> configFile]

\* StoreManager.create_store(store_name): the result it returns, and the
\* configuration and the file it leaves
create_store(store_name, saveFails, ts) ==
    IF store_exists
    THEN [result |-> [success |-> FALSE, message |-> "Store already exists",
                      store_name |-> config.store_name],
          config |-> config, file |-> configFile]
    ELSE LET Saved(cfg, w) ==
                 IF w.raised
                 THEN [result |-> [success |-> FALSE,
                                   message |-> "Failed to initialize store: " \o w.msg,
                                   store_name |-> <<>>],
                       config |-> cfg, file |-> configFile]
                 ELSE [result |-> [success |-> TRUE,
                                   message |-> "Store initialized successfully",
                                   store_name |-> <<store_name>>],
                       config |-> cfg, file |-> w.val]
             Assigned(cfg) == Saved(cfg, _save_config(cfg, saveFails))
         IN  Assigned([store_initialized |-> TRUE, store_name |-> <<store_name>>,
                       created_at |-> <<ts>>])

\* the loop of delete_store over the files listed: the files the service
\* holds afterwards; delFails[i]: delete_file raises for the i-th file
RECURSIVE DeleteAll(_, _, _)
DeleteAll(files, delFails, i) ==
    IF i > Len(files) THEN <<>>
    ELSE (IF delete_file(delFails[i]).raised THEN <<files[i]>> ELSE <<>>)
         \o DeleteAll(files, delFails, i + 1)

\* StoreManager.delete_store(): the result it returns, and the remote
\* files, the configuration and the file it leaves
delete_store(listFails, delFails, saveFails) ==
    IF ~config.store_initialized
    THEN [result |-> [success |-> FALSE, message |-> "No store to delete"],
          remote |-> remote, config |-> config, file |-> configFile]
    ELSE LET Saved(left, w) ==
                 IF w.raised
                 THEN [result |-> [success |-> FALSE,
                                   message |-> "Failed to delete store: " \o w.msg],
                       remote |-> left, config |-> DefaultConfig, file |-> configFile]
                 ELSE [result |-> [success |-> TRUE,
                                   message |-> "Store deleted successfully"],
                       remote |-> left, config |-> DefaultConfig, file |-> w.val]
             Listed(files) ==
                 Saved(IF files.raised THEN remote ELSE DeleteAll(files.val, delFails, 1),
                       _save_config(DefaultConfig, saveFails))
         IN  Listed(list_files(listFails))

\* no session is writing to the log
NoWriters == <<>>

\* no session is in upload_document
NoCalls == <<>>

\* a session that is not in upload_document
IdleCall == [pc |-> "idle", display |-> "", name |-> "", state |-> "",
             listFailed |-> FALSE, result |-> <<>>]

\* a session that is not writing to the log
IdleWriter == [block |-> "", pending |-> <<>>, start |-> 0]

(***************************************************************************)
(* The state machine.  The caller (the UI) issues one call at a time and   *)
(* blocks on it; the remote service processes uploaded files on its own.   *)
(***************************************************************************)
NoUpload == [caller |-> "", file |-> "", display |-> "", name |-> "",
             initial |-> "", state |-> "", listFailed |-> FALSE, present |-> FALSE, before |-> 0]

NoBatch == [items |-> <<>>, i |-> 0, total |-> 0, successful |-> 0,
            failed |-> 0, details |-> <<>>, calls |-> <<>>]

\* a call is in progress: the caller holds no result yet
Running == [op |-> "running"]

GenOutcomes(texts) == {Raise(RemoteError)} \cup {Return(t) : t \in texts}

\* the files an earlier session may have left with the remote service
StoreFiles ==
    << [name |-> "files/1", display_name |-> "a.txt"],
       [name |-> "files/2", display_name |-> "A.txt"] >>

\* the stores a run may start with: the first n of these files, each in any
\* state
Stores ==
    UNION {{[i \in 1..n |-> [name |-> StoreFiles[i].name,
                             display_name |-> StoreFiles[i].display_name,
                             state |-> st[i]]] : st \in [1..n -> States]}
           : n \in 0..Len(StoreFiles)}

\* ChatHandler.__init__ has run: _ensure_log_file wrote the header (created),
\* or failed and printed its warning
InitWith(stores, created) ==
    /\ remote \in stores
    /\ \E ts \in Timestamps, c \in created :
          IF c THEN log = Header("Created", ts) /\ logExists = TRUE
          ELSE log = "" /\ logExists = FALSE
    /\ logged = [queries |-> 0, ratings |-> 0]
    /\ pc = "idle"
    /\ up = NoUpload
    /\ batch = NoBatch
    /\ last = [op |-> "none"]
    /\ config = DefaultConfig
    /\ configFile = NoFile
    /\ writers = NoWriters
    /\ calls = NoCalls

LogRoom(max) == logged.queries + logged.ratings < max

\* what the environment does during one call of query(): whether listing
\* fails, what each file lookup gives, what generate_content does, whether
\* the log can be written.  When listing fails nothing else is asked of it.
QueryEnvs(texts) ==
    {e \in [listFails : BOOLEAN, look : [1..Len(remote) -> Lookups],
            gen : GenOutcomes(texts), writeFails : BOOLEAN] :
        e.listFails => /\ e.look = [i \in 1..Len(remote) |-> "ok"]
                       /\ e.gen = Raise(RemoteError)
                       /\ ~e.writeFails}

\* ChatHandler.query(question)
Query(questions, texts, max) ==
    /\ pc = "idle"
    /\ \E question \in questions, e \in QueryEnvs(texts), ts \in Timestamps :
          \E r \in {query(question, e.listFails, e.look, e.gen, e.writeFails, ts)} :
              /\ r.written # "" => LogRoom(max)
              /\ log' = log \o r.written
              /\ logExists' = (logExists \/ r.written # "")
              /\ logged' = IF r.written # ""
                           THEN [logged EXCEPT !.queries = @ + 1] ELSE logged
              /\ last' = [op |-> "query",
                          writeFailed |-> e.writeFails /\ r.logCalls > 0,
                          genFailed |-> e.gen.raised /\ r.genCalls > 0,
                          generated |-> IF r.genCalls > 0 /\ ~e.gen.raised
                                        THEN e.gen.val ELSE ""] @@ r
    /\ UNCHANGED <<calls, config, configFile, writers, remote, pc, up, batch>>

\* ChatHandler.save_rating(question, answer, rating, note)
SaveRating(questions, texts, max) ==
    /\ pc = "idle"
    /\ \E question \in questions, answer \in texts, rating \in Ratings,
          note \in Notes, writeFails \in BOOLEAN, ts \in Timestamps :
          /\ ~writeFails => LogRoom(max)
          /\ log' = IF writeFails THEN log
                    ELSE log \o RatingBlock(question, rating, note, ts)
          /\ logExists' = (logExists \/ ~writeFails)
          /\ logged' = IF writeFails THEN logged
                       ELSE [logged EXCEPT !.ratings = @ + 1]
          /\ last' = [op |-> "save_rating", question |-> question, note |-> note,
                      result |-> ~writeFails]
    /\ UNCHANGED <<calls, config, configFile, writers, remote, pc, up, batch>>

\* ChatHandler.clear_history()
ClearHistory ==
    /\ pc = "idle"
    /\ \E writeFails \in BOOLEAN, ts \in Timestamps :
          /\ log' = IF writeFails THEN log
                    ELSE OpenForWrite(log) \o Header("Cleared", ts)
          /\ logExists' = (logExists \/ ~writeFails)
          /\ logged' = IF writeFails THEN logged ELSE [queries |-> 0, ratings |-> 0]
          /\ last' = [op |-> "clear_history", result |-> ~writeFails,
                      dropped |-> logged.queries + logged.ratings]
    /\ UNCHANGED <<calls, config, configFile, writers, remote, pc, up, batch>>

\* DocumentManager.delete_document(document_name); deleting a name the
\* service does not hold fails like any other remote error
DeleteDocument ==
    /\ pc = "idle"
    /\ \E document_name \in RemoteNames \cup {FileName(0)}, fails \in BOOLEAN :
          \E r \in {delete_document(fails \/ document_name \notin RemoteNames)} :
              /\ remote' = IF fails \/ document_name \notin RemoteNames THEN remote
                            ELSE Without(remote, document_name)
              /\ last' = [op |-> "delete_document", raised |-> r.raised,
                          deleteFailed |-> fails \/ document_name \notin RemoteNames,
                          before |-> Len(remote)]
                         @@ (IF r.raised THEN [message |-> r.msg] ELSE r.val)
    /\ UNCHANGED <<calls, config, configFile, writers, log, logExists, logged, pc, up, batch>>

\* one entry of the details of batch_upload_documents
Detail(file, result) ==
    [file |-> file, success |-> result.success, message |-> result.message]

\* a faulty loop body: failures are not counted
Tally_SuccessOnly(b, file, result) ==
    [b EXCEPT !.successful = IF result.success THEN @ + 1 ELSE @,
              !.details = Append(@, Detail(file, result)),
              !.calls = Append(@, [file |-> file, success |-> result.success]),
              !.i = @ + 1]

\* the loop body of batch_upload_documents after upload_document returned
Tally(b, file, result) ==
    [b EXCEPT !.successful = IF result.success THEN @ + 1 ELSE @,
              !.failed = IF result.success THEN @ ELSE @ + 1,
              !.details = Append(@, Detail(file, result)),
              !.calls = Append(@, [file |-> file, success |-> result.success]),
              !.i = @ + 1]

BatchResult(b) ==
    [op |-> "batch_upload", items |-> b.items, total |-> b.total,
     successful |-> b.successful, failed |-> b.failed, details |-> b.details,
     calls |-> b.calls]

\* upload_document ends with `outcome`, the result it returns (or what it
\* raises) to its caller: the UI, or the loop of batch_upload_documents,
\* which goes on with the next item or returns.  failed: the steps that
\* failed (the temporary file, upload_file, the removal of the temporary
\* file); uploadFileCalls: the calls of GeminiClient.upload_file made; handle: the
\* state of the file object upload_file returned ("" when it raised or was
\* not called); initial: the state the service reported at submission;
\* snapshot: the state upload_file last read.
Finish(c, outcome, failed, uploadFileCalls, handle, snapshot) ==
    /\ up' = NoUpload
    /\ IF c.caller = "single"
       THEN /\ pc' = "idle"
            /\ batch' = batch
            /\ last' = [op |-> "upload_document", display |-> c.display,
                        listFailed |-> c.listFailed, present |-> c.present,
                        before |-> c.before, after |-> Len(remote'),
                        initial |-> c.initial,
                        raised |-> outcome.raised, failed |-> failed,
                        uploadFileCalls |-> uploadFileCalls,
                        handle |-> handle, snapshot |-> snapshot]
                       @@ (IF outcome.raised THEN [message |-> outcome.msg]
                           ELSE outcome.val)
       ELSE LET b == Tally(batch, c.file, outcome.val)
            IN  IF b.i > Len(b.items)
                THEN /\ pc' = "idle"
                     /\ batch' = NoBatch
                     /\ last' = BatchResult(b)
                ELSE /\ pc' = "batch"
                     /\ batch' = b
                     /\ last' = Running

\* upload_document(uploaded_file, display_name) up to the submission of the
\* file by genai.upload_file; uploaded_file is an UploadedFile named file
\* (a path string behaves the same without the temporary file)
StartUpload(caller, file, display_name, listFails, tmpFails, submitFails, unlinkFails, initState) ==
    LET file_display_name == IF display_name # "" THEN display_name ELSE file
        existing_docs == list_documents(listFails)
        c == [caller |-> caller, file |-> IF caller = "batch" THEN file ELSE "",
              display |-> file_display_name,
              name |-> NewName, initial |-> initState, state |-> initState,
              listFailed |-> listFails,
              present |-> \E i \in 1..Len(remote) :
                              remote[i].display_name = file_display_name,
              before |-> Len(remote)]
    IN  IF IsDuplicate(existing_docs, file_display_name)
        THEN /\ remote' = remote
             /\ Finish(c, UploadExcept(Return(DuplicateResult(file_display_name))),
                       {}, 0, "", "")
        ELSE IF tmpFails
        THEN /\ remote' = remote
             /\ Finish(c, UploadExcept(Raise(IOErrorText)), {"tempfile"}, 0, "", "")
        ELSE IF submitFails
        THEN /\ remote' = remote
             /\ Finish(c, UploadExcept(AfterCleanup(
                           Raise("Failed to upload file: " \o RemoteError),
                           unlinkFails)),
                       {"upload_file"} \cup (IF unlinkFails THEN {"unlink"} ELSE {}),
                       1, "", "")
        ELSE /\ Len(remote) < MaxFiles
             /\ remote' = WithFile(remote, [name |-> NewName,
                                            display_name |-> file_display_name,
                                            state |-> initState])
             /\ up' = c
             /\ pc' = "polling"
             /\ batch' = batch
             /\ last' = Running

\* what the environment does during upload_document up to the submission:
\* whether listing fails, whether the temporary file can be written, whether
\* the submission fails (and then whether the temporary file can be removed),
\* and the state the service reports for the new file.  What is not reached
\* is not asked.
UploadEnvs ==
    {e \in [listFails : BOOLEAN, tmpFails : BOOLEAN, submitFails : BOOLEAN,
            unlinkFails : BOOLEAN, initState : States] :
        /\ e.tmpFails => ~e.submitFails
        /\ ~e.submitFails => ~e.unlinkFails
        /\ (e.tmpFails \/ e.submitFails) => e.initState = "PROCESSING"}

\* the arguments of upload_document: the file's own name, and a display name
\* or none
UploadInputs ==
    { [file |-> "a.txt", display_name |-> ""],
      [file |-> "A.txt", display_name |-> ""],
      [file |-> "a.txt", display_name |-> "A.txt"] }

\* DocumentManager.upload_document(uploaded_file, display_name)
UploadDocument ==
    /\ pc = "idle"
    /\ \E u \in UploadInputs, e \in UploadEnvs :
          StartUpload("single", u.file, u.display_name, e.listFails, e.tmpFails,
                      e.submitFails, e.unlinkFails, e.initState)
    /\ UNCHANGED <<calls, config, configFile, writers, log, logExists, logged>>

\* the poll loop of upload_file: time.sleep(1); file = genai.get_file(file.name)
Poll ==
    /\ pc = "polling"
    /\ StillProcessing(up.state)
    /\ UNCHANGED <<calls, config, configFile, writers, remote, log, logExists, logged>>
    /\ \E getFails \in BOOLEAN, unlinkFails \in BOOLEAN :
          IF getFails
          THEN Finish(up, UploadExcept(AfterCleanup(
                          Raise("Failed to upload file: " \o RemoteError),
                          unlinkFails)),
                      {"upload_file"} \cup (IF unlinkFails THEN {"unlink"} ELSE {}),
                      1, "", up.state)
          ELSE /\ up' = [up EXCEPT !.state = RemoteFile(up.name).state]
               /\ UNCHANGED <<pc, batch, last>>

\* the poll loop has ended: upload_file returns the file or raises, and
\* upload_document returns its result
UploadReturn ==
    /\ pc = "polling"
    /\ ~StillProcessing(up.state)
    /\ UNCHANGED <<calls, config, configFile, writers, remote, log, logExists, logged>>
    /\ \E unlinkFails \in BOOLEAN :
          LET r == upload_file_exit(up.name, up.state)
          IN  Finish(up,
                     UploadExcept(AfterCleanup(
                         IF r.raised THEN r
                         ELSE Return(UploadSuccess(up.display, r.val.name)),
                         unlinkFails)),
                     (IF r.raised THEN {"upload_file"} ELSE {})
                         \cup (IF unlinkFails THEN {"unlink"} ELSE {}),
                     1, IF r.raised THEN "" ELSE r.val.state, up.state)

\* DocumentManager.batch_upload_documents(uploaded_files): the results are
\* initialised; an empty list returns them at once
BatchUpload ==
    /\ pc = "idle"
    /\ \E n \in 0..MaxBatch : \E items \in [1..n -> DisplayNames] :
          LET b == [NoBatch EXCEPT !.items = items, !.total = Len(items), !.i = 1]
          IN  IF items = <<>>
              THEN /\ last' = BatchResult(b)
                   /\ UNCHANGED <<pc, batch>>
              ELSE /\ batch' = b
                   /\ pc' = "batch"
                   /\ last' = Running
    /\ UNCHANGED <<calls, config, configFile, writers, remote, log, logExists, logged, up>>

\* the loop of batch_upload_documents calls upload_document(file)
BatchItem ==
    /\ pc = "batch"
    /\ \E e \in UploadEnvs :
          StartUpload("batch", batch.items[batch.i], "", e.listFails, e.tmpFails,
                      e.submitFails, e.unlinkFails, e.initState)
    /\ UNCHANGED <<calls, config, configFile, writers, log, logExists, logged>>

\* the remote service finishes processing a file
RemoteProcess ==
    /\ \E i \in 1..Len(remote), s \in {"ACTIVE", "FAILED"} :
          /\ remote[i].state = "PROCESSING"
          /\ remote' = [remote EXCEPT ![i].state = s]
    /\ UNCHANGED <<calls, config, configFile, writers, log, logExists, logged, pc, up, batch, last>>

(***************************************************************************)
(* The query pipeline: queries against every store the registry can leave *)
(* behind, while the remote service goes on processing.                    *)
(***************************************************************************)
PipelineQuery == Query({"What is X?"}, GenTexts, MaxLogBlocks)

Init == InitWith(Stores, BOOLEAN)

Next ==
    \/ PipelineQuery
    \/ RemoteProcess

Spec == Init /\ [][Next]_vars

\* C1: a query over a store that holds at least one document, none of them
\* active (each is processing, failed, or fails its lookup), returns
\* found = false and does not call generate_content.
C1_NoActiveNoGeneration ==
    (/\ last.op = "query"
     /\ Len(last.lookups) >= 1
     /\ \A i \in 1..Len(last.lookups) : last.lookups[i] # "ACTIVE")
        => (~last.found /\ last.genCalls = 0 /\ last.sent = <<>>)

C1_Witness ==
    /\ last.op = "query"
    /\ last.lookups = <<"PROCESSING", "error">>
    /\ ~last.found
    /\ last.genCalls = 0

\* C2: a query with an active document whose generation returns exactly the
\* refusal sentence has found = false.
C2_RefusalNotFound ==
    (/\ last.op = "query"
     /\ \E i \in 1..Len(last.lookups) : last.lookups[i] = "ACTIVE"
     /\ last.genCalls = 1 /\ ~last.genFailed
     /\ last.answer = RefusalSentence)
        => ~last.found

\* C3: every call of query() whose log write can succeed appends exactly one
\* query block, on every path.
C3_OneBlockPerQuery ==
    (last.op = "query" /\ ~last.writeFailed)
        => (last.logCalls = 1 /\ last.written = QueryBlock(last))

\* C6 as stated: query() does not raise, and whenever listing, a file lookup,
\* generation or logging fails, the response has found = false, no sources
\* and an answer text.
C6_AnyFailureNotFound ==
    (/\ last.op = "query"
     /\ \/ last.listFailed
        \/ \E i \in 1..Len(last.lookups) : last.lookups[i] = "error"
        \/ last.genFailed
        \/ last.writeFailed)
        => (~last.raised /\ ~last.found /\ last.sources = <<>> /\ last.answer # "")

\* C6, amended: query() never raises and always answers with a text.  When
\* listing fails the response is the no-documents response; when no lookup
\* gives an active document, or generation fails, the response has
\* found = false, no sources, and an answer naming the remote error if there
\* was one.  A failed lookup of only some of the files, or a failed log
\* write, does not by itself make the response found = false.
C6_NeverRaises ==
    last.op = "query" =>
        /\ ~last.raised
        /\ last.answer # ""
        /\ last.listFailed
               => /\ last.answer =
                        "No documents available to query. Please upload documents first."
                  /\ ~last.found /\ last.sources = <<>>
        /\ (\A i \in 1..Len(last.lookups) : last.lookups[i] # "ACTIVE")
               => (~last.found /\ last.sources = <<>>)
        /\ (\E i \in 1..Len(last.lookups) : last.lookups[i] = "error") /\ last.genCalls = 0
               => Contains(last.answer, RemoteError)
        /\ last.genFailed
               => (~last.found /\ last.sources = <<>> /\ Contains(last.answer, RemoteError))

C6_Witness ==
    /\ last.op = "query"
    /\ last.genFailed
    /\ last.writeFailed
    /\ last.lookups = <<"error", "ACTIVE">>
    /\ ~last.raised /\ ~last.found /\ last.sources = <<>>

\* C8 as stated: a query with zero documents registered returns the fixed
\* no-documents message with found = false and makes no remote call: no
\* list, no file lookup, no generation.
C8_NoRemoteCalls ==
    (last.op = "query" /\ remote = <<>>)
        => /\ last.answer = "No documents available to query. Please upload documents first."
           /\ ~last.found
           /\ last.listCalls = 0 /\ last.getCalls = 0 /\ last.genCalls = 0

\* C8, amended: a query with zero documents registered returns the fixed
\* no-documents message with found = false and no sources; it lists the
\* remote files once, and makes no file lookup and no generation call.
C8_ListOnly ==
    (last.op = "query" /\ remote = <<>>)
        => /\ last.answer = "No documents available to query. Please upload documents first."
           /\ ~last.found
           /\ last.sources = <<>>
           /\ last.listCalls = 1 /\ last.getCalls = 0 /\ last.genCalls = 0

C8_Witness ==
    /\ last.op = "query"
    /\ remote = <<>>
    /\ ~last.listFailed
    /\ last.path = "nodocs"
    /\ last.listCalls = 1

\* C14: when generation returned an answer, the sources of the response are
\* one entry for each document passed to generate_content, in the order in
\* which they were passed, which is the order of the listing without the
\* documents that were not ready; no source names a document filtered out.
C14_SourcesAreSent ==
    (last.op = "query" /\ last.path = "generated") =>
        LET active == {i \in 1..Len(last.lookups) : last.lookups[i] = "ACTIVE"}
        IN  /\ last.genCalls = 1
            /\ Len(last.sent) = Cardinality(active)
            /\ \A i \in active :
                  last.sent[Cardinality({j \in active : j <= i})] = remote[i].name
            /\ Len(last.sources) = Len(last.sent)
            /\ \A k \in 1..Len(last.sent) :
                  /\ last.sources[k].file_name = last.sent[k]
                  /\ last.sources[k].document = RemoteFile(last.sent[k]).display_name
            /\ \A i \in (1..Len(last.lookups)) \ active :
                  \A k \in 1..Len(last.sources) :
                      last.sources[k].file_name # remote[i].name

C14_Witness ==
    /\ last.op = "query"
    /\ last.path = "generated"
    /\ last.lookups = <<"ACTIVE", "ACTIVE">>
    /\ last.sources = << [document |-> "a.txt", file_name |-> "files/1"],
                         [document |-> "A.txt", file_name |-> "files/2"] >>

\* C17: a query during which the log cannot be written returns the answer,
\* the sources and the found flag that the same query, with the same
\* lookups and the same generation, returns when the log can be written.
C17_LogFailureKeepsResponse ==
    (last.op = "query" /\ last.writeFailed) =>
        \A e \in QueryEnvs(GenTexts) :
            (/\ ~e.listFails
             /\ ~e.writeFails
             /\ last.lookups = [i \in 1..Len(remote) |->
                                   IF e.look[i] = "ok" THEN remote[i].state
                                   ELSE e.look[i]]
             /\ last.genCalls > 0 =>
                   /\ e.gen.raised = last.genFailed
                   /\ ~e.gen.raised => e.gen.val = last.generated)
            => \A logging \in {query(last.question, FALSE, e.look, e.gen, FALSE,
                                     last.timestamp)} :
                  /\ ~last.raised
                  /\ logging.written # ""
                  /\ last.answer = logging.answer
                  /\ last.sources = logging.sources
                  /\ last.found = logging.found

C17_Witness ==
    /\ last.op = "query"
    /\ last.writeFailed
    /\ last.written = ""
    /\ last.genCalls = 1
    /\ last.sources # <<>>
    /\ last.lookups = [i \in 1..Len(remote) |-> remote[i].state]

\* C18: a query during which the listing fails returns the no-documents
\* response with found = false, whatever the remote service holds, without
\* raising and without a lookup or a call of generate_content.
C18_ListFailureNoDocuments ==
    (last.op = "query" /\ last.listFailed) =>
        /\ ~last.raised
        /\ last.path = "nodocs"
        /\ last.answer = "No documents available to query. Please upload documents first."
        /\ ~last.found
        /\ last.sources = <<>>
        /\ last.getCalls = 0
        /\ last.genCalls = 0

C18_Witness ==
    /\ last.op = "query"
    /\ last.listFailed
    /\ Len(remote) = 2
    /\ remote[1].state = "ACTIVE"
    /\ ~last.found

(***************************************************************************)
(* A query during which the remote service goes on: between the readiness  *)
(* filter and generate_content, documents the filter accepted turn from    *)
(* Active to Failed or are deleted (by another session, or by expiry).     *)
(***************************************************************************)
MaxRaces == 1

\* what may have become of the files of the store by the time of
\* generate_content: each is as it was, or was Active and is Failed, or is
\* gone
RECURSIVE Turned(_, _)
Turned(store, i) ==
    IF i > Len(store) THEN {<<>>}
    ELSE LET rest == Turned(store, i + 1)
             here == {<<store[i]>>, <<>>}
                     \cup (IF store[i].state = "ACTIVE"
                           THEN {<<[store[i] EXCEPT !.state = "FAILED"]>>} ELSE {})
         IN  {h \o r : h \in here, r \in rest}

\* ChatHandler.query(question), the remote service changing its files after
\* the readiness filter has run
RacingQuery ==
    /\ pc = "idle"
    /\ \E question \in {"What is X?"}, e \in QueryEnvs({Answer80}),
          ts \in Timestamps, later \in Turned(remote, 1) :
          \E part \in {ReadyFilter(get_all_document_names(e.listFails), e.look, 1, <<>>, <<>>)} :
          \E gen \in {generate_content(part.files, later, e.gen)} :
          \E r \in {query(question, e.listFails, e.look, gen, e.writeFails, ts)} :
              /\ r.written # "" => LogRoom(MaxRaces)
              /\ remote' = later
              /\ log' = log \o r.written
              /\ logExists' = (logExists \/ r.written # "")
              /\ logged' = IF r.written # ""
                           THEN [logged EXCEPT !.queries = @ + 1] ELSE logged
              /\ last' = [op |-> "query",
                          writeFailed |-> e.writeFails /\ r.logCalls > 0,
                          genFailed |-> gen.raised /\ r.genCalls > 0,
                          generated |-> IF r.genCalls > 0 /\ ~gen.raised
                                        THEN gen.val ELSE "",
                          accepted |-> {part.files[i].name : i \in 1..Len(part.files)},
                          usable |-> {later[j].name : j \in {n \in 1..Len(later) :
                                                        later[n].state = "ACTIVE"}}] @@ r
    /\ UNCHANGED <<calls, config, configFile, writers, pc, up, batch>>

NextRace ==
    \/ RacingQuery
    \/ RemoteProcess

InitRace == InitWith(Stores, {TRUE})

SpecRace == InitRace /\ [][NextRace]_vars

\* the last call was a query, and a document its readiness filter accepted
\* had turned Failed or was gone by the time of generate_content
Raced ==
    /\ last.op = "query"
    /\ "accepted" \in DOMAIN last
    /\ last.accepted \ last.usable # {}

RaceAnswer ==
    "Error processing query: " \o NotUsableError
        \o "\n\nPlease check the console for details."

\* C21 as stated: if a document the readiness filter accepted turns Failed
\* or is deleted before generate_content runs, query() does not raise, its
\* response has found = false and an answer describing the error, and that
\* response is in the log.
C21_RaceIsLogged ==
    Raced => /\ ~last.raised
             /\ ~last.found
             /\ last.answer = RaceAnswer
             /\ last.written = QueryBlock(last)

\* C21, amended: in that case query() does not raise, and its response has
\* found = false, no sources and the answer that names the error of the
\* remote service; _log_query is called once with that response, which is
\* appended to the log if the log can be written, and left out, with the
\* same response returned, if it cannot.
C21_RaceIsAnError ==
    Raced => /\ ~last.raised
             /\ ~last.found
             /\ last.sources = <<>>
             /\ last.answer = RaceAnswer
             /\ last.genCalls = 1
             /\ last.logCalls = 1
             /\ last.written = (IF last.writeFailed THEN "" ELSE QueryBlock(last))

C21_Witness ==
    /\ Raced
    /\ last.accepted = {"files/1", "files/2"}
    /\ last.usable = {"files/2"}
    /\ ~last.writeFailed
    /\ ~last.found
    /\ last.written = QueryBlock(last)
    /\ Contains(log, RaceAnswer)

(***************************************************************************)
(* The document registry: uploads and deletions, from an empty store.      *)
(***************************************************************************)
InitRegistry == InitWith({<<>>}, {TRUE})

NextRegistry ==
    \/ UploadDocument
    \/ Poll
    \/ UploadReturn
    \/ DeleteDocument
    \/ RemoteProcess

SpecRegistry == InitRegistry /\ [][NextRegistry]_vars

\* C5: upload_document with a display name equal, case and all, to that of
\* a document the listing returns gives success = false and duplicate = true,
\* does not call upload_file, and leaves the number of remote documents as
\* it was.
C5_DuplicateRejected ==
    (last.op = "upload_document" /\ ~last.listFailed /\ last.present)
        => /\ ~last.success
           /\ last.duplicate
           /\ last.uploadFileCalls = 0
           /\ last.after = last.before

C5_Witness ==
    /\ last.op = "upload_document"
    /\ ~last.listFailed
    /\ last.present
    /\ last.display = "A.txt"
    /\ \E i \in 1..Len(remote) : remote[i].display_name = "a.txt"
    /\ last.duplicate

\* C10: upload_file returns no handle whose state is Processing or Failed:
\* while the state it read is Processing it polls on, the handle it returns
\* is in the state it last read, and when that state is Failed it raises, so
\* that upload_document fails.
C10_HandleReady ==
    /\ (last.op = "upload_document" /\ last.uploadFileCalls = 1)
           => /\ last.handle \notin {"PROCESSING", "FAILED"}
              /\ last.handle # "" => last.handle = last.snapshot
              /\ last.snapshot = "FAILED" => (last.handle = "" /\ ~last.success)
              /\ last.success => last.handle = "ACTIVE"
    /\ (pc = "polling" /\ up.state = "PROCESSING") => ~ENABLED UploadReturn

C10_Witness ==
    /\ last.op = "upload_document"
    /\ last.initial = "PROCESSING"
    /\ last.handle = "ACTIVE"
    /\ last.success

\* C20: after any uploads and deletes, also those during which the list of
\* the remote documents fails, no two documents of the remote store have
\* the same display_name.
C20_UniqueDisplayNames ==
    \A i, j \in 1..Len(remote) :
        i # j => remote[i].display_name # remote[j].display_name

\* C25: whenever upload_document() returns success = false, the remote
\* service lists the documents it listed before the call: the failed call
\* has left no document behind.
C25_FailedUploadLeavesNothing ==
    (last.op = "upload_document" /\ ~last.raised /\ ~last.success)
        => last.after = last.before

PollReads == Poll /\ pc' = "polling"

SpecRegistryFair ==
    /\ InitRegistry
    /\ [][NextRegistry]_vars
    /\ WF_vars(PollReads)
    /\ WF_vars(UploadReturn)
    /\ WF_vars(RemoteProcess)

\* C22 as stated, its second half: the poll loop of upload_file ends only
\* once the state of the file has left Processing.
C22_EndsOnlyOnReady ==
    [][(pc = "polling" /\ pc' # "polling") => up.state # "PROCESSING"]_vars

\* C22, amended: when the remote service eventually reports Active or Failed
\* for each file, every upload that has begun to wait eventually returns its
\* result; and as long as the state read is Processing the loop is left in
\* one way only, by a poll whose get_file raises, which makes the upload
\* fail: there is no bound on the polls, no timeout and no cancellation.
C22_UploadTerminates ==
    /\ (last = Running) ~> (last.op = "upload_document")
    /\ [][(pc = "polling" /\ pc' # "polling" /\ up.state = "PROCESSING")
             => (/\ last'.op = "upload_document"
                 /\ ~last'.success
                 /\ last'.handle = ""
                 /\ "upload_file" \in last'.failed
                 /\ last'.snapshot = "PROCESSING")]_vars

C22_Witness ==
    /\ last.op = "upload_document"
    /\ last.initial = "PROCESSING"
    /\ last.snapshot = "FAILED"
    /\ last.uploadFileCalls = 1
    /\ ~last.success

(***************************************************************************)
(* Sessions of the application in upload_document at the same time, each   *)
(* with its own DocumentManager, on the one remote store.  A call is       *)
(* "idle", "checked" (past the duplicate check), "polling" (in the loop of *)
(* upload_file) or "done" (returned, with its result).                     *)
(***************************************************************************)
MaxCallers == 2

InitUploads ==
    /\ remote = <<>>
    /\ \E ts \in Timestamps : log = Header("Created", ts)
    /\ logExists = TRUE
    /\ logged = [queries |-> 0, ratings |-> 0]
    /\ pc = "idle"
    /\ up = NoUpload
    /\ batch = NoBatch
    /\ last = [op |-> "none"]
    /\ config = DefaultConfig
    /\ configFile = NoFile
    /\ writers = NoWriters
    /\ calls = [s \in 1..MaxCallers |-> IdleCall]

\* the call of session s returns (the result of upload_document, after its
\* finally and except clauses)
Done(s, outcome) ==
    calls' = [calls EXCEPT ![s].pc = "done", ![s].result = <<outcome.val>>]

\* upload_document up to the end of its duplicate check
CheckDuplicate ==
    /\ \E s \in 1..MaxCallers, display_name \in DisplayNames, listFails \in BOOLEAN :
          /\ calls[s].pc = "idle"
          /\ IF IsDuplicate(list_documents(listFails), display_name)
             THEN calls' = [calls EXCEPT ![s] =
                      [IdleCall EXCEPT !.pc = "done", !.display = display_name,
                          !.result = <<UploadExcept(Return(
                                          DuplicateResult(display_name))).val>>]]
             ELSE calls' = [calls EXCEPT ![s] =
                      [IdleCall EXCEPT !.pc = "checked", !.display = display_name,
                                       !.listFailed = listFails]]
    /\ UNCHANGED <<remote, log, logExists, logged, pc, up, batch, last, config, configFile, writers>>

\* upload_document from the temporary file to the submission of the file by
\* genai.upload_file
Submit ==
    /\ \E s \in 1..MaxCallers, e \in {u \in UploadEnvs : ~u.listFails} :
          /\ calls[s].pc = "checked"
          /\ IF e.tmpFails
             THEN /\ remote' = remote
                  /\ Done(s, UploadExcept(Raise(IOErrorText)))
             ELSE IF e.submitFails
             THEN /\ remote' = remote
                  /\ Done(s, UploadExcept(AfterCleanup(
                                 Raise("Failed to upload file: " \o RemoteError),
                                 e.unlinkFails)))
             ELSE /\ Len(remote) < MaxFiles
                  /\ remote' = WithFile(remote, [name |-> NewName,
                                                 display_name |-> calls[s].display,
                                                 state |-> e.initState])
                  /\ calls' = [calls EXCEPT ![s].pc = "polling", ![s].name = NewName,
                                            ![s].state = e.initState]
    /\ UNCHANGED <<log, logExists, logged, pc, up, batch, last, config, configFile, writers>>

\* the poll loop of upload_file in session s
PollCall ==
    /\ \E s \in 1..MaxCallers, getFails \in BOOLEAN, unlinkFails \in BOOLEAN :
          /\ calls[s].pc = "polling"
          /\ StillProcessing(calls[s].state)
          /\ IF getFails
             THEN Done(s, UploadExcept(AfterCleanup(
                              Raise("Failed to upload file: " \o RemoteError),
                              unlinkFails)))
             ELSE calls' = [calls EXCEPT ![s].state = RemoteFile(calls[s].name).state]
    /\ UNCHANGED <<remote, log, logExists, logged, pc, up, batch, last, config, configFile, writers>>

\* the poll loop of session s has ended: upload_file returns the file or
\* raises, and upload_document returns its result
ReturnCall ==
    /\ \E s \in 1..MaxCallers, unlinkFails \in BOOLEAN :
          /\ calls[s].pc = "polling"
          /\ ~StillProcessing(calls[s].state)
          /\ \E r \in {upload_file_exit(calls[s].name, calls[s].state)} :
                Done(s, UploadExcept(AfterCleanup(
                            IF r.raised THEN r
                            ELSE Return(UploadSuccess(calls[s].display, r.val.name)),
                            unlinkFails)))
    /\ UNCHANGED <<remote, log, logExists, logged, pc, up, batch, last, config, configFile, writers>>

NextUploads ==
    \/ CheckDuplicate
    \/ Submit
    \/ PollCall
    \/ ReturnCall
    \/ RemoteProcess

SpecUploads == InitUploads /\ [][NextUploads]_vars

\* the documents of the store with this display name
Named(display_name) ==
    {i \in 1..Len(remote) : remote[i].display_name = display_name}

\* C23: when calls of upload_document for the same display name run at the
\* same time on a store without that name (and the listing does not fail),
\* at most one of them returns success = true, and the store holds at most
\* one document of that name.
C23_OneUploadWins ==
    \A s, t \in 1..MaxCallers :
        (/\ s # t
         /\ calls[s].display = calls[t].display
         /\ calls[s].pc # "idle" /\ calls[t].pc # "idle"
         /\ ~calls[s].listFailed /\ ~calls[t].listFailed)
            => /\ Cardinality(Named(calls[s].display)) <= 1
               /\ ~(/\ calls[s].pc = "done" /\ calls[s].result[1].success
                    /\ calls[t].pc = "done" /\ calls[t].result[1].success)

(***************************************************************************)
(* Batch uploads, with deletions between them, from an empty store.        *)
(***************************************************************************)
NextBatch ==
    \/ BatchUpload
    \/ BatchItem
    \/ Poll
    \/ UploadReturn
    \/ DeleteDocument
    \/ RemoteProcess

SpecBatch == InitRegistry /\ [][NextBatch]_vars

\* C9: batch_upload_documents calls upload_document once for each item, in
\* order, whatever became of the items before it, and returns
\* total = number of items = successful + failed = length of details, with
\* details[i] telling of item i.
C9_BatchAccounting ==
    last.op = "batch_upload" =>
        /\ last.total = Len(last.items)
        /\ last.total = last.successful + last.failed
        /\ Len(last.details) = last.total
        /\ Len(last.calls) = Len(last.items)
        /\ \A i \in 1..Len(last.items) :
              /\ last.calls[i].file = last.items[i]
              /\ last.details[i].file = last.items[i]
              /\ last.details[i].success = last.calls[i].success
        /\ last.successful =
              Cardinality({i \in 1..Len(last.details) : last.details[i].success})

C9_Witness ==
    /\ last.op = "batch_upload"
    /\ Len(last.items) = 2
    /\ ~last.details[1].success
    /\ last.details[2].success
    /\ last.failed = 1 /\ last.successful = 1

(***************************************************************************)
(* The query log: queries, ratings and resets with texts that quote the    *)
(* log's own markers.                                                      *)
(***************************************************************************)
LogTexts == {Answer30, AnswerQuoting}

LogQuery == Query(Questions, LogTexts, MaxLogBlocks)

LogRating == SaveRating(Questions, LogTexts, MaxLogBlocks)

InitLog == InitWith({<<>>, <<[name |-> "files/1", display_name |-> "a.txt",
                              state |-> "ACTIVE"]>>}, BOOLEAN)

NextLog ==
    \/ LogQuery
    \/ LogRating
    \/ ClearHistory

SpecLog == InitLog /\ [][NextLog]_vars

\* C4: get_query_count() is the number of query records logged since the log
\* was last reset, whatever the questions, answers and notes are: each query
\* record adds one, a rating adds nothing.
C4_CountIsQueries ==
    logExists => get_query_count(FALSE) = logged.queries

\* C13: after a clear_history() that returned True, get_query_history()
\* returns the header alone (title line, reset timestamp line, delimiter),
\* with no question, answer or note text written before the reset, and
\* get_query_count() returns 0.
C13_ClearLeavesHeader ==
    (last.op = "clear_history" /\ last.result) =>
        /\ \E ts \in Timestamps :
              get_query_history(FALSE) =
                  "# FileRAG Query History\n# Cleared: " \o ts \o "\n"
                  \o Repeat("=", 80) \o "\n\n"
        /\ \A t \in (Questions \cup LogTexts \cup Notes) \ {""} :
              ~Contains(get_query_history(FALSE), t)
        /\ get_query_count(FALSE) = 0

C13_Witness ==
    /\ last.op = "clear_history"
    /\ last.result
    /\ last.dropped >= 1
    /\ get_query_count(FALSE) = 0

(***************************************************************************)
(* The growth of the log: queries, ratings and resets one after another.   *)
(***************************************************************************)
AppendQuery == Query({"What is X?"}, {AnswerShort}, MaxAppends)

AppendRating == SaveRating({"What is X?"}, {AnswerShort}, MaxAppends)

NextAppend ==
    \/ AppendQuery
    \/ AppendRating
    \/ ClearHistory

SpecAppend == InitLog /\ [][NextAppend]_vars

\* C15: a query and a save_rating leave the content the log had as a prefix
\* of its new content; what a successful save_rating adds is one block that
\* begins and ends with a line of 80 '*' and says RATING SUBMITTED.
C15_AppendOnly ==
    [][/\ last'.op \in {"query", "save_rating"}
           => SubSeq(log', 1, Len(log)) = log
       /\ (last'.op = "save_rating" /\ last'.result)
           => LET added == SubSeq(log', Len(log) + 1, Len(log'))
                  stars == Repeat("*", 80)
              IN  /\ log' = log \o added
                  /\ Len(added) > 164
                  /\ SubSeq(added, 1, 100) = "\n" \o stars \o "\nRATING SUBMITTED: "
                  /\ SubSeq(added, Len(added) - 82, Len(added)) = "\n" \o stars \o "\n\n"
                  /\ ~Contains(added, Repeat("=", 80))]_vars

C15_Witness ==
    /\ last.op = "save_rating"
    /\ last.result
    /\ logged.queries = 1
    /\ logged.ratings = 1
    /\ Contains(log, "Query: What is X?")
    /\ Contains(log, "RATING SUBMITTED: ")

(***************************************************************************)
(* Sessions of the application writing to the one log file at the same     *)
(* time: each has its own ChatHandler and its own file object; nothing     *)
(* orders their writes.  Each session logs one query or one rating.        *)
(***************************************************************************)
MaxSessions == 2

\* an answer that does not fit the buffer of the file object
LongAnswer == Repeat("x", BufferSize)

\* the sequences of writes a session may make: a query block with a long or
\* a short answer, or a rating block
SessionWrites ==
    {QueryWrites(Response("What is X?", answer,
                          <<[document |-> "a.txt", file_name |-> "files/1"]>>,
                          TRUE, ts)) : answer \in {LongAnswer, AnswerShort},
                                       ts \in Timestamps}
    \cup {RatingWrites("What is X?", rating, note, ts) :
              rating \in Ratings, note \in Notes, ts \in Timestamps}

InitConcurrent ==
    /\ remote = <<>>
    /\ \E ts \in Timestamps : log = Header("Created", ts)
    /\ logExists = TRUE
    /\ logged = [queries |-> 0, ratings |-> 0]
    /\ pc = "idle"
    /\ up = NoUpload
    /\ batch = NoBatch
    /\ last = [op |-> "none"]
    /\ config = DefaultConfig
    /\ configFile = NoFile
    /\ writers = [w \in 1..MaxSessions |-> IdleWriter]
    /\ calls = NoCalls

\* a session enters _log_query or save_rating: it opens the log for
\* appending and makes its writes, which the file object gathers
OpenLog ==
    /\ \E w \in 1..MaxSessions, writes \in SessionWrites :
          /\ writers[w] = IdleWriter
          /\ writers' = [writers EXCEPT ![w] =
                 [block |-> Join("", writes), pending |-> Chunks(writes, 1, ""),
                  start |-> 0]]
    /\ UNCHANGED <<calls, remote, log, logExists, logged, pc, up, batch, last, config, configFile>>

\* the file object of a session passes on what it has gathered: the
\* operating system appends it to the file
FlushLog ==
    /\ \E w \in 1..MaxSessions :
          /\ writers[w].pending # <<>>
          /\ log' = log \o Head(writers[w].pending)
          /\ writers' = [writers EXCEPT ![w].pending = Tail(@),
                                        ![w].start = IF @ = 0 THEN Len(log) + 1 ELSE @]
    /\ UNCHANGED <<calls, remote, logExists, logged, pc, up, batch, last, config, configFile>>

NextConcurrent ==
    \/ OpenLog
    \/ FlushLog

SpecConcurrent == InitConcurrent /\ [][NextConcurrent]_vars

\* C19: when sessions write to the log at the same time, the block of each
\* is in the file in one piece: once a session has written its block, the
\* file holds the whole block from the place where it began.
C19_BlocksContiguous ==
    \A w \in 1..MaxSessions :
        (writers[w].block # "" /\ writers[w].pending = <<>>)
            => SubSeq(log, writers[w].start,
                      writers[w].start + Len(writers[w].block) - 1) = writers[w].block

(***************************************************************************)
(* The store configuration: one StoreManager creating and deleting the     *)
(* store, over every store of files an earlier session may have left.     *)
(***************************************************************************)
StoreNames == {"filerag_store", "notes"}

\* the configuration an earlier session may have saved
SavedConfigs ==
    {[store_initialized |-> TRUE, store_name |-> <<"filerag_store">>,
      created_at |-> <<ts>>] : ts \in Timestamps}

\* StoreManager.__init__ has run: the configuration is the one loaded from
\* the file an earlier session left, or the default one
InitStore ==
    /\ remote \in Stores
    /\ configFile \in {NoFile} \cup {<<c>> : c \in SavedConfigs}
    /\ \E readFails \in BOOLEAN : config = _load_config(configFile, readFails)
    /\ log = "" /\ logExists = FALSE
    /\ logged = [queries |-> 0, ratings |-> 0]
    /\ pc = "idle"
    /\ up = NoUpload
    /\ batch = NoBatch
    /\ last = [op |-> "none"]
    /\ writers = NoWriters
    /\ calls = NoCalls

\* StoreManager.create_store(store_name)
CreateStore ==
    /\ pc = "idle"
    /\ \E store_name \in StoreNames, saveFails \in BOOLEAN, ts \in Timestamps :
          \E r \in {create_store(store_name, saveFails, ts)} :
              /\ config' = r.config
              /\ configFile' = r.file
              /\ last' = [op |-> "create_store", name |-> store_name,
                          saveFailed |-> saveFails /\ ~store_exists,
                          configBefore |-> config, fileBefore |-> configFile,
                          success |-> r.result.success,
                          message |-> r.result.message,
                          store_name |-> r.result.store_name]
    /\ UNCHANGED <<calls, remote, log, logExists, logged, pc, up, batch, writers>>

\* what the environment does during delete_store: whether listing fails,
\* for which files delete_file fails, whether the file can be written.
\* What is not reached is not asked.
DeleteEnvs ==
    {e \in [listFails : BOOLEAN, delFails : [1..Len(remote) -> BOOLEAN],
            saveFails : BOOLEAN] :
        /\ e.listFails => e.delFails = [i \in 1..Len(remote) |-> FALSE]
        /\ ~config.store_initialized =>
               /\ ~e.listFails /\ ~e.saveFails
               /\ e.delFails = [i \in 1..Len(remote) |-> FALSE]}

\* StoreManager.delete_store()
DeleteStore ==
    /\ pc = "idle"
    /\ \E e \in DeleteEnvs :
          \E r \in {delete_store(e.listFails, e.delFails, e.saveFails)} :
              /\ remote' = r.remote
              /\ config' = r.config
              /\ configFile' = r.file
              /\ last' = [op |-> "delete_store",
                          listFailed |-> e.listFails,
                          deleteFailed |-> \E i \in 1..Len(remote) : e.delFails[i],
                          saveFailed |-> e.saveFails,
                          before |-> Len(remote),
                          configBefore |-> config, fileBefore |-> configFile,
                          success |-> r.result.success,
                          message |-> r.result.message]
    /\ UNCHANGED <<calls, log, logExists, logged, pc, up, batch, writers>>

NextStore ==
    \/ CreateStore
    \/ DeleteStore
    \/ RemoteProcess

SpecStore == InitStore /\ [][NextStore]_vars

\* C11: after a delete_store() that returned success, the remote service
\* holds no documents.
C11_DeleteStoreEmpties ==
    (last.op = "delete_store" /\ last.success) => remote = <<>>

\* C24: whenever create_store() or delete_store() returns success = false,
\* store_exists() and get_store_name() give what they gave before the call,
\* also when the configuration file could not be written.
C24_FailureLeavesStore ==
    (last.op \in {"create_store", "delete_store"} /\ ~last.success)
        => /\ store_exists = last.configBefore.store_initialized
           /\ get_store_name = last.configBefore.store_name

\* C12: create_store() on an initialized store returns success = false and
\* leaves the configuration, in memory and in the file, as it was; and a
\* configuration that was not the default one becomes the default one by
\* delete_store() only.
C12_OneStore ==
    /\ (last.op = "create_store" /\ last.configBefore.store_initialized)
           => /\ ~last.success
              /\ last.message = "Store already exists"
              /\ config = last.configBefore
              /\ configFile = last.fileBefore
    /\ (/\ last.op \in {"create_store", "delete_store"}
        /\ last.configBefore # DefaultConfig
        /\ config = DefaultConfig)
           => last.op = "delete_store"

C12_Witness ==
    /\ last.op = "create_store"
    /\ last.configBefore.store_initialized
    /\ last.configBefore.store_name = <<"filerag_store">>
    /\ last.name = "notes"
    /\ ~last.success
    /\ config.store_name = <<"filerag_store">>

(***************************************************************************)
(* The classification of an answer, as a function of the answer and the    *)
(* attributions: applied to answers around the threshold, with and without *)
(* refusal phrases, and to attribution lists down to the empty one.        *)
(***************************************************************************)
ClassifyAnswers ==
    {RefusalSentence, Answer80, Answer30, Answer50, Answer51, AnswerUpper,
     AnswerShort, AnswerQuoting, "No answer generated"}
    \cup {"We " \o not_found_phrases[i] \o " topic" : i \in 1..Len(not_found_phrases)}

ClassifyFiles ==
    UNION {[1..n -> {[name |-> "files/1", display_name |-> "a.txt"],
                     [name |-> "files/2", display_name |-> "A.txt"]}]
           : n \in 0..MaxFiles}

InitClassify ==
    /\ remote = <<>>
    /\ log = "" /\ logExists = FALSE
    /\ logged = [queries |-> 0, ratings |-> 0]
    /\ pc = "idle"
    /\ up = NoUpload
    /\ batch = NoBatch
    /\ last = [op |-> "none"]
    /\ config = DefaultConfig
    /\ configFile = NoFile
    /\ writers = NoWriters
    /\ calls = NoCalls

\* the classification step of query_with_files on an answer and the files
\* sent along
Classification ==
    /\ \E answer \in ClassifyAnswers, files \in ClassifyFiles :
          last' = [op |-> "classify", answer |-> answer,
                   sources |-> Sources(files),
                   found |-> Classify(answer, Sources(files))]
    /\ UNCHANGED <<calls, config, configFile, writers, remote, log, logExists, logged, pc, up, batch>>

NextClassify == Classification

SpecClassify == InitClassify /\ [][NextClassify]_vars

\* C7: the found flag of a generated answer is: not (the lower-cased answer
\* contains one of the refusal phrases), or (there are attributions and the
\* answer is longer than 50 characters).  An answer of 80 characters with
\* one attribution and no refusal phrase is found; an answer of 30
\* characters containing "not found in the" is not.
C7_FoundRule ==
    last.op = "classify" =>
        /\ last.found =
              (\/ ~\E i \in 1..Len(not_found_phrases) :
                      Contains(Lower(last.answer), not_found_phrases[i])
               \/ (last.sources # <<>> /\ Len(last.answer) > 50))
        /\ (last.answer = Answer80 /\ Len(last.sources) = 1) => last.found
        /\ last.answer = Answer30 => ~last.found
        /\ last.answer = AnswerUpper => ~last.found

C7_Witness ==
    /\ last.op = "classify"
    /\ last.answer = Answer51
    /\ Contains(last.answer, "not available in the")
    /\ Len(last.sources) = 1
    /\ last.found

====
